---- MODULE Spec2Model ----
(***************************************************************************)
(* The JSON:API data provider of ra-jsonapi-client.                        *)
(*                                                                         *)
(* The repository holds the provider twice: src/index.js (the ES source)   *)
(* and a compiled CommonJS counterpart (src/unnamed/part_000).  The two    *)
(* differ, so the variable `build` says which of them serves the calls:    *)
(* "src" or "lib".                                                         *)
(*                                                                         *)
(* JavaScript objects are functions from key strings to values; a key that *)
(* is absent (undefined) is absent from the domain.                        *)
(* A query object is the sequence of its <<key, value>> entries in         *)
(* insertion order.  A URL is [path, query]: the text before the "?" and   *)
(* the sequence of the "&"-separated parameters after it, each the [key,   *)
(* value] on the two sides of its "=" (no "query" key: no "?").            *)
(* Percent-encoding of the query is not modelled.                          *)
(***************************************************************************)
EXTENDS Integers, Sequences, FiniteSets, TLC

VARIABLES
  build,          \* "src": src/index.js, "lib": the compiled file
  userSettings,   \* the settings given to the provider factory
  localStorage,   \* the browser's store holding the datagrid preferences
  pc,             \* "idle", "pending", "resolved", "rejected" or "thrown"
  type,           \* the request type of the current invocation
  resource,       \* its resource, as the sequence of its path segments
  params,         \* the caller's params object (the code may write to it)
  params0,        \* history: the params as the caller first supplied them
  request,        \* the argument of the axios call, null before it
  transportCalls, \* axios calls issued by the current invocation
  response,       \* response.data of the transport's answer, null before it
  result,         \* the value the promise resolved with, null otherwise
  error           \* the error thrown or the rejection, null otherwise

vars == <<build, userSettings, localStorage, pc, type, resource, params,
          params0, request, transportCalls, response, result, error>>

-----------------------------------------------------------------------------
(* Bounds of the model *)

\* the longest `data` array of a response
MaxItems == 2
\* the largest count a response's meta carries
MaxTotal == 1
\* the longest id list of a GET_MANY, UPDATE_MANY or DELETE_MANY request
MaxIds == 2

-----------------------------------------------------------------------------
(* JavaScript values *)

\* null and undefined; Some(v) is a value that may have been null
null == <<>>
Some(v) == <<v>>
EmptyObj == <<>>
Range(seq) == {seq[i] : i \in 1..Len(seq)}
Has(o, k) == k \in DOMAIN o
Without(o, k) == [x \in (DOMAIN o) \ {k} |-> o[x]]
OptKey(k, S) == {EmptyObj} \cup {(k :> v) : v \in S}

RECURSIVE Join(_, _)
Join(seq, sep) ==
  IF Len(seq) = 0 THEN ""
  ELSE IF Len(seq) = 1 THEN seq[1]
  ELSE seq[1] \o sep \o Join(Tail(seq), sep)

RECURSIVE Keys(_)
Keys(S) == IF S = {} THEN <<>>
           ELSE LET k == CHOOSE x \in S : TRUE IN <<k>> \o Keys(S \ {k})

-----------------------------------------------------------------------------
(* Request types (./actions) and errors (./errors) *)

GET_LIST == "GET_LIST"
GET_ONE == "GET_ONE"
CREATE == "CREATE"
UPDATE == "UPDATE"
UPDATE_MANY == "UPDATE_MANY"
DELETE == "DELETE"
DELETE_MANY == "DELETE_MANY"
GET_MANY == "GET_MANY"
GET_MANY_REFERENCE == "GET_MANY_REFERENCE"

\* the closed enumeration of request kinds
RequestKinds ==
  {GET_LIST, GET_ONE, CREATE, UPDATE, UPDATE_MANY, DELETE, DELETE_MANY,
   GET_MANY, GET_MANY_REFERENCE}

\* request types no build knows
MadeUpKinds == {"BOGUS", "PURGE"}

NotImplementedError(message) ==
  [name |-> "NotImplementedError", message |-> message]

\* what the runtime throws on a property access or a call on null/undefined
TypeError == [name |-> "TypeError", message |-> "Cannot read properties"]

Threw(e, p) == [threw |-> TRUE, error |-> e, params |-> p]
Sends(url, options, p) ==
  [threw |-> FALSE, request |-> [url |-> url] @@ options, params |-> p]

-----------------------------------------------------------------------------
(* Settings *)

\* ./default-settings, as the specification documents it
defaultSettings ==
  [headers |-> EmptyObj, updateMethod |-> "PATCH", arrayFormat |-> "repeat",
   getManyKey |-> "id"]

\* deepmerge(defaultSettings, userSettings): the user's keys win
merge(x, y) == y @@ x

apiUrl == "http://api"

-----------------------------------------------------------------------------
(* Serialization *)

\* JSON.stringify of a request body
JSON_stringify(value) == [json |-> value]

\* one parameter of a query string: key=value
Param(key, value) == [key |-> key, value |-> value]

\* qs.stringify(query) of a query whose values are all scalars
stringify(query) ==
  [i \in 1..Len(query) |-> Param(query[i][1], query[i][2])]

\* qs.stringify({key: array}, {arrayFormat}); an empty array yields nothing
stringifyArray(key, array, arrayFormat) ==
  IF Len(array) = 0 THEN <<>>
  ELSE IF arrayFormat = "comma" THEN <<Param(key, Join(array, ","))>>
  ELSE [i \in 1..Len(array) |->
          IF arrayFormat = "repeat" THEN Param(key, array[i])
          ELSE IF arrayFormat = "brackets" THEN Param(key \o "[]", array[i])
          ELSE Param(key \o "[" \o ToString(i - 1) \o "]", array[i])]

\* query[key] = value
Put(query, key, value) ==
  IF \E i \in 1..Len(query) : query[i][1] = key
  THEN [i \in 1..Len(query) |->
          IF query[i][1] = key THEN <<key, value>> ELSE query[i]]
  ELSE Append(query, <<key, value>>)

\* Object.keys(obj || {}).forEach(key => query[`${prefix}[${key}]`] = obj[key])
RECURSIVE PutAll(_, _, _, _)
PutAll(query, prefix, obj, keys) ==
  IF Len(keys) = 0 THEN query
  ELSE PutAll(Put(query, prefix \o "[" \o keys[1] \o "]", obj[keys[1]]),
              prefix, obj, Tail(keys))

PutObject(query, prefix, o, k) ==
  IF Has(o, k) THEN PutAll(query, prefix, o[k], Keys(DOMAIN o[k])) ELSE query

ResourceName(r) == Join(r, "/")

-----------------------------------------------------------------------------
(* Field selection from the persisted datagrid preferences *)

\* JSON.parse(localStorage.getItem(key)): null when nothing is stored
getItem(store, key) == IF Has(store, key) THEN Some(store[key]) ELSE null

\* available.find((a) => a["index"] == c)
findByIndex(available, c) ==
  IF \E i \in 1..Len(available) : available[i].index = c
  THEN Some(available[CHOOSE i \in 1..Len(available) :
                        /\ available[i].index = c
                        /\ \A j \in 1..(i - 1) : available[j].index # c])
  ELSE null

\* !omit.find((o) => a["source"] == o): find returns the entry found, and an
\* empty string found is falsy
notOmitted(omit, a) == a.source \notin Range(omit) \/ a.source = ""

baseKey(res) == "RaStore.preferences." \o ResourceName(res) \o ".datagrid"

\* let selected = available; if (omit != null) ...; if (columns != null) ...
\* The result is [threw, selected]: selected is null or Some(a sequence whose
\* entries are Some(column), or null where find matched no column).
selectColumns(columns, omit, available) ==
  LET all == IF available = null THEN null
             ELSE Some([i \in 1..Len(available[1]) |-> Some(available[1][i])])
      \* available.filter(...), a TypeError when available is null
      omitThrows == omit # null /\ available = null
      afterOmit ==
        IF omit = null THEN all
        ELSE LET kept == SelectSeq(available[1],
                                   LAMBDA a : notOmitted(omit[1], a))
             IN Some([i \in 1..Len(kept) |-> Some(kept[i])])
      \* columns.map(c => available.find(...)): find is called per entry
      columnsThrows ==
        columns # null /\ available = null /\ Len(columns[1]) > 0
      afterColumns ==
        IF columns = null THEN afterOmit
        ELSE Some([i \in 1..Len(columns[1]) |->
                     findByIndex(available[1], columns[1][i])])
  IN IF omitThrows \/ columnsThrows THEN [threw |-> TRUE]
     ELSE [threw |-> FALSE, selected |-> afterColumns]

addFieldsToparams(res, p, store) ==
  LET columns == getItem(store, baseKey(res) \o ".columns")
      omit == getItem(store, baseKey(res) \o ".omit")
      available == getItem(store, baseKey(res) \o ".availableColumns")
      sel == selectColumns(columns, omit, available)
  IN IF sel.threw THEN Threw(TypeError, p)
     ELSE IF sel.selected = null THEN [threw |-> FALSE, params |-> p]
     ELSE LET selected == sel.selected[1]
              apiResource == res[Len(res)]
          IN IF \E i \in 1..Len(selected) : selected[i] = null
             \* params["fields"] = {} is written before s.source throws
             THEN Threw(TypeError, ("fields" :> EmptyObj) @@ p)
             ELSE [threw |-> FALSE,
                   params |->
                     ("fields" :>
                        (apiResource :>
                           Join([i \in 1..Len(selected) |->
                                   selected[i][1].source], ",")))
                     @@ p]

-----------------------------------------------------------------------------
(* Outbound mapping: the first switch *)

Url(res, query) ==
  [path |-> apiUrl \o "/" \o ResourceName(res), query |-> query]
UrlOf(res, id) ==
  [path |-> apiUrl \o "/" \o ResourceName(res) \o "/" \o id]
UrlAll(res) == [path |-> apiUrl \o "/" \o ResourceName(res)]

pageQuery(p) ==
  <<<<"page[number]", ToString(p.pagination.page)>>,
    <<"page[size]", ToString(p.pagination.perPage)>>>>

\* if (params.sort && params.sort.field) query.sort = prefix + field
addSort(query, p) ==
  IF Has(p, "sort") /\ Has(p.sort, "field") /\ p.sort.field # ""
  THEN LET prefix == IF Has(p.sort, "order") /\ p.sort.order = "ASC"
                     THEN "" ELSE "-"
       IN Put(query, "sort", prefix \o p.sort.field)
  ELSE query

\* the fields and meta parameters of the compiled file's GET_LIST
addMeta(b, query, p) ==
  IF b = "lib" THEN PutObject(query, "meta", p, "meta") ELSE query

caseGetList(b, res, p, settings, store) ==
  IF ~Has(p, "pagination") THEN Threw(TypeError, p)
  ELSE LET q1 == PutObject(pageQuery(p), "filter", p, "filter")
           af == addFieldsToparams(res, p, store)
       IN IF af.threw THEN af
          ELSE LET q2 == PutObject(q1, "fields", af.params, "fields")
                   q3 == addMeta(b, q2, af.params)
                   q4 == addSort(q3, af.params)
               IN Sends(Url(res, stringify(q4)),
                        [headers |-> settings.headers], af.params)

caseGetOne(res, p, settings) ==
  Sends(UrlOf(res, p.id), [headers |-> settings.headers], p)

caseCreate(res, p, settings) ==
  Sends(UrlAll(res),
        [headers |-> settings.headers, method |-> "POST",
         data |-> JSON_stringify(
           [data |-> [type |-> ResourceName(res), attributes |-> p.data]])],
        p)

\* caseUpdate without `delete attributes.id`
caseUpdateKeepsId(res, p, settings) ==
  Sends(UrlOf(res, p.id),
        [headers |-> settings.headers, method |-> settings.updateMethod,
         data |-> JSON_stringify(
           [data |-> [id |-> p.id, type |-> ResourceName(res),
                      attributes |-> p.data]])],
        p)

\* const attributes = params.data; delete attributes.id: the caller's object
caseUpdate(res, p, settings) ==
  LET attributes == Without(p.data, "id")
      written == [p EXCEPT !.data = attributes]
  IN Sends(UrlOf(res, p.id),
           [headers |-> settings.headers, method |-> settings.updateMethod,
            data |-> JSON_stringify(
              [data |-> [id |-> p.id, type |-> ResourceName(res),
                         attributes |-> attributes]])],
           written)

caseUpdateMany(res, p, settings) ==
  Sends(UrlAll(res),
        [headers |-> settings.headers, method |-> settings.updateMethod,
         data |-> JSON_stringify([ids |-> p.ids, data |-> p.data])],
        p)

caseDelete(res, p, settings) ==
  Sends(UrlOf(res, p.id),
        [headers |-> settings.headers, method |-> "DELETE"], p)

caseDeleteMany(res, p, settings) ==
  Sends(UrlAll(res),
        [headers |-> settings.headers, method |-> "DELETE",
         data |-> JSON_stringify([ids |-> p.ids])],
        p)

\* src/index.js: filter[${settings.getManyKey}]; the compiled file: filter[id]
getManyFilterKey(b, settings) ==
  IF b = "src" THEN "filter[" \o settings.getManyKey \o "]" ELSE "filter[id]"

caseGetMany(b, res, p, settings) ==
  Sends(Url(res, stringifyArray(getManyFilterKey(b, settings), p.ids,
                                settings.arrayFormat)),
        [headers |-> settings.headers], p)

\* src/index.js adds the sort parameter; the compiled file does not
referenceSort(b, query, p) == IF b = "src" THEN addSort(query, p) ELSE query

caseGetManyReference(b, res, p, settings) ==
  IF ~Has(p, "pagination") THEN Threw(TypeError, p)
  ELSE LET q1 == PutObject(pageQuery(p), "filter", p, "filter")
           q2 == Put(q1, "filter[" \o p.target \o "]", p.id)
           q3 == referenceSort(b, q2, p)
       IN Sends(Url(res, stringify(q3)), [headers |-> settings.headers], p)

\* caseDefault without the throw: the switch falls through to the axios call
caseDefaultFallsThrough(t, p) == Sends("", EmptyObj, p)

caseDefault(t, p) ==
  Threw(NotImplementedError("Unsupported Data Provider request type " \o t), p)

\* the request types the build's switches have a case for
Cases(b) ==
  IF b = "lib" THEN RequestKinds
  ELSE RequestKinds \ {UPDATE_MANY, DELETE_MANY}

Outbound(b, t, res, p, settings, store) ==
  IF t \notin Cases(b) THEN caseDefault(t, p)
  ELSE CASE t = GET_LIST -> caseGetList(b, res, p, settings, store)
         [] t = GET_ONE -> caseGetOne(res, p, settings)
         [] t = CREATE -> caseCreate(res, p, settings)
         [] t = UPDATE -> caseUpdate(res, p, settings)
         [] t = UPDATE_MANY -> caseUpdateMany(res, p, settings)
         [] t = DELETE -> caseDelete(res, p, settings)
         [] t = DELETE_MANY -> caseDeleteMany(res, p, settings)
         [] t = GET_MANY -> caseGetMany(b, res, p, settings)
         [] t = GET_MANY_REFERENCE ->
              caseGetManyReference(b, res, p, settings)

-----------------------------------------------------------------------------
(* Inbound mapping: the then callback *)

Rejects(e) == [threw |-> TRUE, error |-> e]
Resolves(v) == [threw |-> FALSE, value |-> v]

\* ./helpers getValue(meta, path): the field a dotted path names
RECURSIVE getValue(_, _)
getValue(obj, path) ==
  IF Len(path) = 0 THEN Some(obj)
  ELSE IF Has(obj, path[1]) THEN getValue(obj[path[1]], Tail(path))
  ELSE null

\* response.data.meta[settings.total], or getValue of the compiled file.
\* settings.total is the sequence of the dot-separated parts of the string.
metaTotal(b, body, settings) ==
  IF Has(body, "meta") /\ Has(settings, "total") /\ settings.total # <<>>
  THEN IF b = "lib" THEN getValue(body.meta, settings.total)
       ELSE LET key == Join(settings.total, ".")
            IN IF Has(body.meta, key) THEN Some(body.meta[key]) ELSE null
  ELSE null

\* total = total || response.data.data.length
orLength(total, body) ==
  IF total = null \/ total = Some(0) THEN Len(body.data) ELSE total[1]

\* Object.assign({ id: value.id }, value.attributes), { id, ...attributes }
normalize(value) ==
  (IF Has(value, "attributes") THEN value.attributes ELSE EmptyObj)
    @@ (IF Has(value, "id") THEN [id |-> value.id] ELSE EmptyObj)

normalizeAll(data) == [i \in 1..Len(data) |-> normalize(data[i])]

\* meta: response.data.meta of the compiled file's GET_LIST and GET_MANY
withMeta(b, body) ==
  IF b = "lib" /\ Has(body, "meta") THEN [meta |-> body.meta] ELSE EmptyObj

Inbound(b, t, p, settings, body) ==
  IF t \in {GET_LIST, GET_MANY, GET_MANY_REFERENCE}
  THEN IF ~Has(body, "data") THEN Rejects(TypeError)
       ELSE LET total == orLength(metaTotal(b, body, settings), body)
                list == [data |-> normalizeAll(body.data), total |-> total]
            IN IF t = GET_MANY_REFERENCE THEN Resolves(list)
               ELSE Resolves(list @@ withMeta(b, body))
  ELSE IF t \in {GET_ONE, CREATE, UPDATE}
  THEN IF ~Has(body, "data") THEN Rejects(TypeError)
       ELSE Resolves([data |-> normalize(body.data)])
  ELSE IF t = DELETE THEN Resolves([data |-> [id |-> p.id]])
  ELSE IF t \in {UPDATE_MANY, DELETE_MANY} /\ t \in Cases(b)
  THEN Resolves([data |-> p.ids])
  ELSE Rejects(NotImplementedError(
                 "Unsupported Data Provider request type " \o t))

-----------------------------------------------------------------------------
(* The inputs: what the caller, the store and the server may supply *)

Builds == {"src", "lib"}

UserSettings ==
  {EmptyObj,
   [updateMethod |-> "PUT", total |-> <<"count">>],
   [getManyKey |-> "uuid", arrayFormat |-> "brackets"],
   [total |-> <<"page", "total">>, arrayFormat |-> "comma",
    headers |-> [Authorization |-> "token"]]}

Resources == {<<"posts">>, <<"blog", "posts">>}

Title == [index |-> "1", source |-> "title"]
Body == [index |-> "2", source |-> "body"]

\* the preferences the datagrid may have persisted for one resource
Preferences ==
  {EmptyObj,
   [availableColumns |-> <<Title, Body>>],
   [availableColumns |-> <<>>],
   [availableColumns |-> <<Title, Body>>, omit |-> <<"body">>],
   [availableColumns |-> <<Title, Body>>, omit |-> <<"title", "body">>],
   [availableColumns |-> <<Title, Body>>, columns |-> <<"2", "1">>],
   [availableColumns |-> <<Title, Body>>, columns |-> <<"2">>,
    omit |-> <<"body">>],
   [availableColumns |-> <<Title>>, columns |-> <<"1", "2">>],
   [omit |-> <<"body">>],
   [columns |-> <<"1">>],
   [columns |-> <<"1">>, omit |-> <<"body">>]}

Persisted(res, prefs) ==
  [k \in {baseKey(res) \o "." \o name : name \in DOMAIN prefs} |->
     prefs[CHOOSE name \in DOMAIN prefs : k = baseKey(res) \o "." \o name]]

Stores ==
  {Persisted(<<"posts">>, prefs) : prefs \in Preferences}
    \cup {Persisted(<<"blog", "posts">>, [availableColumns |-> <<Title, Body>>,
                                          omit |-> <<"body">>])}

Paginations == {[page |-> 1, perPage |-> 10], [page |-> 2, perPage |-> 25]}
Sorts ==
  {[field |-> "name", order |-> "ASC"], [field |-> "name", order |-> "DESC"],
   [order |-> "ASC"]}
Filters == {[q |-> "x"]}
Ids == {"1", "2"}
IdList(n) == [i \in 1..n |-> ToString(i)]
Datas == {[title |-> "a"], [id |-> "1", title |-> "a"], [id |-> "7"]}

ListParams ==
  {[pagination |-> pg] @@ s @@ f :
     pg \in Paginations, s \in OptKey("sort", Sorts),
     f \in OptKey("filter", Filters)}
    \cup {[pagination |-> [page |-> 1, perPage |-> 10],
           fields |-> [posts |-> "id"]],
          [pagination |-> [page |-> 1, perPage |-> 10],
           meta |-> [include |-> "author"]]}

ReferenceParams ==
  {[pagination |-> pg, target |-> "author_id", id |-> "1"] @@ s @@ f :
     pg \in Paginations, s \in OptKey("sort", Sorts),
     f \in OptKey("filter", Filters)}

ParamsOf(t) ==
  CASE t = GET_LIST -> ListParams
    [] t = GET_MANY_REFERENCE -> ReferenceParams
    [] t \in {GET_ONE, DELETE} -> {[id |-> i] : i \in Ids}
    [] t = CREATE -> {[data |-> d] : d \in Datas}
    [] t = UPDATE -> {[id |-> i, data |-> d] : i \in Ids, d \in Datas}
    [] t = UPDATE_MANY ->
         {[ids |-> IdList(n), data |-> [title |-> "a"]] : n \in 0..MaxIds}
    [] t \in {DELETE_MANY, GET_MANY} -> {[ids |-> IdList(n)] : n \in 0..MaxIds}
    [] OTHER -> {[id |-> "1"], [id |-> "1", data |-> [id |-> "1"]]}

\* the resource objects a response may carry
Item(i) ==
  [id |-> ToString(i), type |-> "posts",
   attributes |-> IF i % 2 = 0 THEN [title |-> "b", id |-> "9"]
                  ELSE [title |-> "a"]]
Items(n) == [i \in 1..n |-> Item(i)]

ResponseMetas ==
  {EmptyObj, [meta |-> EmptyObj]}
    \cup {[meta |-> [count |-> n]] : n \in 0..MaxTotal}
    \cup {[meta |-> [page |-> [total |-> MaxTotal]]]}

\* response.data: the body the server answers a request of type t with
Bodies(t) ==
  IF t \in {GET_LIST, GET_MANY, GET_MANY_REFERENCE}
  THEN {[data |-> Items(n)] @@ m : n \in 0..MaxItems, m \in ResponseMetas}
         \cup {EmptyObj}
  ELSE IF t \in {GET_ONE, CREATE, UPDATE}
  THEN {[data |-> Item(1)], [data |-> Item(2)], EmptyObj}
  ELSE {EmptyObj, [data |-> Items(1)]}

\* what the transport rejects with
TransportErrors ==
  {[name |-> "Error", message |-> "Network Error"],
   [name |-> "HttpError", message |-> "500"]}

-----------------------------------------------------------------------------
(* The provider *)

Init ==
  /\ build \in Builds
  /\ userSettings \in UserSettings
  /\ localStorage \in Stores
  /\ pc = "idle"
  /\ type = ""
  /\ resource = <<>>
  /\ params = EmptyObj
  /\ params0 = EmptyObj
  /\ request = null
  /\ transportCalls = 0
  /\ response = null
  /\ result = null
  /\ error = null

\* (type, resource, params) => { ... return axios({ url, ...options }) ... }
\* up to the axios call or the throw
Start(t, res, p) ==
  LET settings == merge(defaultSettings, userSettings)
      out == Outbound(build, t, res, p, settings, localStorage)
  IN /\ type' = t
     /\ resource' = res
     /\ params' = out.params
     /\ response' = null
     /\ result' = null
     /\ IF out.threw
        THEN /\ pc' = "thrown"
             /\ error' = Some(out.error)
             /\ request' = null
             /\ transportCalls' = 0
        ELSE /\ pc' = "pending"
             /\ error' = null
             /\ request' = Some(out.request)
             /\ transportCalls' = 1
     /\ UNCHANGED <<build, userSettings, localStorage>>

\* the caller invokes the provider with a params object of its own making
Invoke ==
  /\ pc = "idle"
  /\ \E t \in RequestKinds \cup MadeUpKinds, res \in Resources :
       \E p \in ParamsOf(t) :
         /\ params0' = p
         /\ Start(t, res, p)

\* the caller invokes the provider again with the same params object
Reinvoke ==
  /\ pc \in {"resolved", "rejected", "thrown"}
  /\ UNCHANGED params0
  /\ Start(type, resource, params)

\* the transport resolves and the then callback runs
TransportResolve ==
  /\ pc = "pending"
  /\ \E body \in Bodies(type) :
       LET settings == merge(defaultSettings, userSettings)
           in == Inbound(build, type, params, settings, body)
       IN /\ response' = Some(body)
          /\ IF in.threw
             THEN /\ pc' = "rejected"
                  /\ error' = Some(in.error)
                  /\ result' = null
             ELSE /\ pc' = "resolved"
                  /\ result' = Some(in.value)
                  /\ error' = null
  /\ UNCHANGED <<build, userSettings, localStorage, type, resource, params,
                 params0, request, transportCalls>>

\* the transport rejects: there is no catch, the rejection is the promise's
TransportReject ==
  /\ pc = "pending"
  /\ \E e \in TransportErrors :
       /\ pc' = "rejected"
       /\ error' = Some(e)
  /\ result' = null
  /\ UNCHANGED <<build, userSettings, localStorage, type, resource, params,
                 params0, request, transportCalls, response>>

\* the caller is done with the settled call
Return ==
  /\ pc \in {"resolved", "rejected", "thrown"}
  /\ pc' = "idle"
  /\ type' = ""
  /\ resource' = <<>>
  /\ params' = EmptyObj
  /\ params0' = EmptyObj
  /\ request' = null
  /\ transportCalls' = 0
  /\ response' = null
  /\ result' = null
  /\ error' = null
  /\ UNCHANGED <<build, userSettings, localStorage>>

Next == Invoke \/ Reinvoke \/ TransportResolve \/ TransportReject \/ Return

Spec == Init /\ [][Next]_vars

-----------------------------------------------------------------------------
(* Properties *)

settingsInForce == merge(defaultSettings, userSettings)
started == pc # "idle"
sent == request # null
query == request[1].url.query
stored(name) == getItem(localStorage, baseKey(resource) \o "." \o name)
apiType == resource[Len(resource)]

\* C1: a request type outside the enumeration fails with the "unsupported
\* request type" error naming the type, before any transport call, and the
\* call writes nothing: no request, params as supplied, settings and store
\* as they were.
C1_UnsupportedTypeFailsFirst ==
  [][type' \in MadeUpKinds =>
       /\ pc' = "thrown"
       /\ error' = Some(NotImplementedError(
                          "Unsupported Data Provider request type " \o type'))
       /\ transportCalls' = 0
       /\ request' = null
       /\ result' = null
       /\ params' = params0'
       /\ userSettings' = userSettings
       /\ localStorage' = localStorage]_vars

C1_Witness ==
  /\ pc = "thrown"
  /\ type = "BOGUS"
  /\ Has(params0, "data")
  /\ error[1].message = "Unsupported Data Provider request type BOGUS"

\* C2: an UPDATE sends {data: {id: params.id, type: resource, attributes}}
\* with attributes = params.data less its id key, by the method
\* settings.updateMethod, to {base}/{resource}/{params.id}.
C2_UpdateRequest ==
  (started /\ type = UPDATE) =>
    /\ sent
    /\ request[1].data =
         JSON_stringify(
           [data |-> [id |-> params0.id, type |-> ResourceName(resource),
                      attributes |->
                        [k \in (DOMAIN params0.data) \ {"id"} |->
                           params0.data[k]]]])
    /\ "id" \notin DOMAIN request[1].data.json.data.attributes
    /\ request[1].method =
         (IF Has(userSettings, "updateMethod") THEN userSettings.updateMethod
          ELSE defaultSettings.updateMethod)
    /\ request[1].url =
         [path |-> apiUrl \o "/" \o ResourceName(resource) \o "/"
                     \o params0.id]

C2_Witness ==
  /\ pc = "pending"
  /\ type = UPDATE
  /\ Has(params0.data, "id")
  /\ params0.data.id # params0.id
  /\ Has(params0.data, "title")
  /\ request[1].method = "PUT"

\* C3: for GET_LIST, GET_MANY and GET_MANY_REFERENCE the total of the result
\* is the meta field settings.total names when the response has a meta, the
\* setting is set and the field is there, and the number of resource objects
\* otherwise; a total of 0 that is there stays 0.  (Stated for a
\* settings.total that names a field of meta itself.)
C3_TotalFromMeta ==
  (pc = "resolved" /\ type \in {GET_LIST, GET_MANY, GET_MANY_REFERENCE}
     /\ (Has(settingsInForce, "total") => Len(settingsInForce.total) = 1)) =>
    LET body == response[1]
        named == /\ Has(body, "meta")
                 /\ Has(settingsInForce, "total")
                 /\ Has(body.meta, settingsInForce.total[1])
    IN result[1].total =
         IF named THEN body.meta[settingsInForce.total[1]]
         ELSE Len(body.data)

\* the columns the preferences select, as the resolution order gives them
matching(available, c) ==
  SelectSeq(available, LAMBDA a : a.index = c)
RECURSIVE listed(_, _)
listed(available, columns) ==
  IF Len(columns) = 0 THEN <<>>
  ELSE matching(available, columns[1]) \o listed(available, Tail(columns))
expectedSelection ==
  LET available == IF stored("availableColumns") = null THEN <<>>
                   ELSE stored("availableColumns")[1]
  IN IF stored("columns") # null THEN listed(available, stored("columns")[1])
     ELSE IF stored("omit") # null
       THEN SelectSeq(available,
                      LAMBDA a : a.source \notin Range(stored("omit")[1]))
     ELSE available
sourcesOf(columns) == Join([i \in 1..Len(columns) |-> columns[i].source], ",")

\* C4: for GET_LIST the selection is: the available columns matching the
\* listed indexes, in listed order, when a column list is persisted; else
\* the available columns not omitted; else all available columns; and the
\* query carries fields[T] = their sources joined by commas, T the last
\* segment of the resource.  (Stated for preferences with an available list.)
C4_FieldSelection ==
  (started /\ type = GET_LIST /\ stored("availableColumns") # null) =>
    /\ sent
    /\ Param("fields[" \o apiType \o "]", sourcesOf(expectedSelection))
         \in Range(query)

\* C5: a GET_LIST never emits an empty fields[] parameter: with all three
\* preference sets null none is added, and with any other preferences the
\* call does not fail and a fields[T] it emits has a value.
C5_NoEmptyFields ==
  (started /\ type = GET_LIST) =>
    /\ pc # "thrown"
    /\ Param("fields[" \o apiType \o "]", "") \notin Range(query)
    /\ (/\ stored("columns") = null
        /\ stored("omit") = null
        /\ stored("availableColumns") = null
        /\ ~Has(params0, "fields"))
         => \A i \in 1..Len(query) :
              query[i].key # "fields[" \o apiType \o "]"

\* C6: the query of GET_LIST and of GET_MANY_REFERENCE has page[number],
\* page[size] and filter[K] per filter key, and its sort is the field with
\* a "-" before it when the order is descending, the field alone when the
\* order is ASC, and is left out without a sort field.
C6_ListQuery ==
  (sent /\ type \in {GET_LIST, GET_MANY_REFERENCE}) =>
    /\ Param("page[number]", ToString(params0.pagination.page))
         \in Range(query)
    /\ Param("page[size]", ToString(params0.pagination.perPage))
         \in Range(query)
    /\ Has(params0, "filter") =>
         \A k \in DOMAIN params0.filter :
           Param("filter[" \o k \o "]", params0.filter[k]) \in Range(query)
    /\ type = GET_MANY_REFERENCE =>
         Param("filter[" \o params0.target \o "]", params0.id)
           \in Range(query)
    /\ IF Has(params0, "sort") /\ Has(params0.sort, "field")
       THEN /\ params0.sort.order = "DESC" =>
                 Param("sort", "-" \o params0.sort.field) \in Range(query)
            /\ params0.sort.order = "ASC" =>
                 Param("sort", params0.sort.field) \in Range(query)
       ELSE \A i \in 1..Len(query) : query[i].key # "sort"

\* C7: UPDATE_MANY and DELETE_MANY are supported: UPDATE_MANY sends
\* {ids, data} to {base}/{resource} by settings.updateMethod, DELETE_MANY
\* sends {ids} to {base}/{resource} by DELETE, and the result's data is the
\* request's id list whatever the server answers.
C7_ManySupported ==
  (started /\ type \in {UPDATE_MANY, DELETE_MANY}) =>
    /\ pc # "thrown"
    /\ request[1].url = [path |-> apiUrl \o "/" \o ResourceName(resource)]
    /\ type = UPDATE_MANY =>
         /\ request[1].method = settingsInForce.updateMethod
         /\ request[1].data =
              JSON_stringify([ids |-> params0.ids, data |-> params0.data])
    /\ type = DELETE_MANY =>
         /\ request[1].method = "DELETE"
         /\ request[1].data = JSON_stringify([ids |-> params0.ids])
    /\ pc # "rejected" \/ error[1] \in TransportErrors
    /\ pc = "resolved" => result[1] = [data |-> params0.ids]

\* C8: the one filter parameter of a GET_MANY is keyed by
\* settings.getManyKey ("id" by default) and holds the id list serialized
\* per settings.arrayFormat.
C8_GetManyKey ==
  (sent /\ type = GET_MANY) =>
    query = stringifyArray(
              "filter["
                \o (IF Has(userSettings, "getManyKey")
                    THEN userSettings.getManyKey ELSE "id")
                \o "]",
              params0.ids, settingsInForce.arrayFormat)

\* C9: no invocation writes to what outlives it: the caller's params are
\* after the call what the caller supplied.
C9_ParamsUntouched == started => params = params0

\* C10: an invocation with a request type of the enumeration issues exactly
\* one transport call and settles once; the response stage never raises
\* the "unsupported request type" error.
C10_OneCallPerInvocation ==
  (started /\ type \in RequestKinds) =>
    /\ transportCalls = 1
    /\ pc \in {"pending", "resolved", "rejected"}
    /\ pc = "rejected" => error[1].name # "NotImplementedError"

====
